---- MODULE Spec2Model ----
(***************************************************************************)
(* Model of the two investment scripts of Stocks-prices:                   *)
(*   src/main.py  lump-sum: buy on purchase_date, sell at the last row     *)
(*   src/test.py  recurring: buy on the first day of each month            *)
(* Both walk target_files, read one CSV per stock, store an outcome in     *)
(* `results`, and after the loop sum the profit and rank the outcomes.     *)
(*                                                                         *)
(* Abstractions:                                                           *)
(*  - a timestamp is a calendar day (UTC midnight); the calendar is the    *)
(*    five days of Days, two of which are first-of-month days;             *)
(*  - a float is an exact rational [n, d], d = 0 being +-inf (n # 0) or     *)
(*    NaN (n = 0), so the arithmetic is IEEE-754 without rounding;         *)
(*  - Low is non-negative and Close is positive in the files read.         *)
(***************************************************************************)
EXTENDS Integers, Sequences, FiniteSets, TLC

VARIABLES script, pc, idx, file, data, console, results, investment_history,
          advanced, total_profit, total_investment,
          total_profit_percent, sorted_results

vars == <<script, pc, idx, file, data, console, results, investment_history,
          advanced, total_profit, total_investment,
          total_profit_percent, sorted_results>>

(***************************************************************************)
(* Bounds                                                                  *)
(***************************************************************************)
\* number of stocks in target_files (16 in the source)
NumStocks == 2
\* greatest number of rows of a CSV file when one stock is followed alone
MaxRows == 2
\* greatest number of rows of a CSV file when the whole basket is walked
MaxBasketRows == 1

(***************************************************************************)
(* Program constants                                                       *)
(***************************************************************************)
target_files == [k \in 1..NumStocks |-> k]
total_budget == 900
monthly_budget == 100
\* '2024-03-01' as a day of Days
purchase_date == 1
start_investment_date == 1

(***************************************************************************)
(* Calendar: 0 = 2024-02-29, 1 = 2024-03-01, 2 = 2024-03-15,               *)
(*           3 = 2024-04-01, 4 = 2024-04-15                                *)
(***************************************************************************)
Days == 0..4
MonthStarts == {1, 3}
\* what pd.to_datetime(errors='coerce') gives for a date it cannot parse
NaT == -1
\* a Date cell of a CSV file: a day, or text that is no date
Garbage == -2
RawDates == Days \cup {Garbage}

(***************************************************************************)
(* float arithmetic                                                        *)
(***************************************************************************)
Abs(x) == IF x < 0 THEN -x ELSE x

RECURSIVE GCD(_, _)
GCD(a, b) == IF b = 0 THEN a ELSE GCD(b, a % b)

Sign(x) == IF x > 0 THEN 1 ELSE IF x < 0 THEN -1 ELSE 0

\* the float n/d, d >= 0, in lowest terms
Norm(n, d) ==
    IF d = 0 THEN [n |-> Sign(n), d |-> 0]
    ELSE LET g == GCD(Abs(n), d) IN [n |-> n \div g, d |-> d \div g]

Float(k) == [n |-> k, d |-> 1]
IsNaN(a) == a.n = 0 /\ a.d = 0

QNeg(a) == [n |-> -a.n, d |-> a.d]

QAdd(a, b) ==
    IF a.d = 0 /\ b.d = 0
    THEN (IF a.n = b.n THEN a ELSE [n |-> 0, d |-> 0])
    ELSE Norm(a.n * b.d + b.n * a.d, a.d * b.d)

QSub(a, b) == QAdd(a, QNeg(b))

QMul(a, b) == Norm(a.n * b.n, a.d * b.d)

\* numpy's true division: x/0 is +-inf or NaN with a warning, never an exception
QDiv(a, b) ==
    LET num == a.n * b.d
        den == a.d * b.n
    IN  IF den < 0 THEN Norm(-num, -den) ELSE Norm(num, den)

QLt(a, b) ==
    IF IsNaN(a) \/ IsNaN(b) THEN FALSE
    ELSE IF a.d = 0 /\ b.d = 0 THEN a.n < b.n
    ELSE a.n * b.d < b.n * a.d

QGt(a, b) == QLt(b, a)

RECURSIVE QSum(_)
QSum(s) == IF s = <<>> THEN Float(0) ELSE QAdd(QSum(SubSeq(s, 1, Len(s) - 1)), s[Len(s)])

split_percentage == QDiv(Float(1), Float(Len(target_files)))

(***************************************************************************)
(* CSV files                                                               *)
(***************************************************************************)
LowValues == {0, 1}
CloseValues == {1, 2}
Rows == [Date : RawDates, Low : LowValues, Close : CloseValues]

RECURSIVE SeqsUpTo(_, _)
SeqsUpTo(S, n) ==
    IF n = 0 THEN {<<>>}
    ELSE LET shorter == SeqsUpTo(S, n - 1)
         IN  shorter \cup {Append(s, x) : s \in {t \in shorter : Len(t) = n - 1}, x \in S}

\* what os.path.exists / pd.read_csv find for one stock
NotRead == [kind |-> "none", rows |-> <<>>]
FilesOf(n) ==
    {[kind |-> "missing", rows |-> <<>>],
     [kind |-> "unreadable", rows |-> <<>>],
     [kind |-> "no_columns", rows |-> <<>>]}
    \cup {[kind |-> "table", rows |-> r] : r \in SeqsUpTo(Rows, n)}
Files == FilesOf(MaxRows)
BasketFiles == FilesOf(MaxBasketRows)

\* data['Date'] = pd.to_datetime(data['Date'], errors='coerce', utc=True)
ToDatetime(rows) ==
    [k \in 1..Len(rows) |->
        [rows[k] EXCEPT !.Date = IF rows[k].Date \in Days THEN rows[k].Date ELSE NaT]]

\* data.dropna(subset=['Date'])
DropNa(rows) == LET Parsed(r) == r.Date # NaT IN SelectSeq(rows, Parsed)

(***************************************************************************)
(* src/main.py: the body of the loop for one stock                         *)
(***************************************************************************)
\* PurchaseRow without its comparison with purchase_date
PurchaseRowUnfiltered(d) == d

\* data[data['Date'].dt.strftime('%Y-%m-%d') == purchase_date]
PurchaseRow(d) == LET OnDate(r) == r.Date = purchase_date IN SelectSeq(d, OnDate)

\* data.iloc[-1]
LastRow(d) == d[Len(d)]

\* lines 72-95: the outcome stored for a stock whose purchase date is in d
LumpOutcome(stock, d) ==
    LET purchase_price == Float(PurchaseRow(d)[1].Low)
        selling_price == Float(LastRow(d).Close)
        budget_for_stock == QMul(Float(total_budget), split_percentage)
        shares_bought == QDiv(budget_for_stock, purchase_price)
        profit == QSub(QMul(shares_bought, selling_price), budget_for_stock)
        profit_percentage == QMul(QDiv(profit, budget_for_stock), Float(100))
    IN  [Stock |-> stock,
         SharesBought |-> shares_bought,
         PurchasePrice |-> purchase_price,
         SellingPrice |-> selling_price,
         Profit |-> profit,
         ProfitPercentage |-> profit_percentage]

\* console.print / print of one iteration
Say(text) == Append(console, <<target_files[idx + 1], text>>)

MainFileMissing(f) ==
    /\ f.kind = "missing"
    /\ console' = Say("file_not_found")
    /\ data' = <<>>
    /\ advanced' = advanced + 1
    /\ pc' = "end"
    /\ UNCHANGED results

\* MainReadError with pd.read_csv outside the try: the script ends there
MainReadErrorUncaught(f) ==
    /\ f.kind = "unreadable"
    /\ console' = Say("error")
    /\ data' = <<>>
    /\ advanced' = advanced
    /\ pc' = "crashed"
    /\ UNCHANGED results

\* pd.read_csv raises: `except Exception` prints, `finally` advances
MainReadError(f) ==
    /\ f.kind = "unreadable"
    /\ console' = Say("error")
    /\ data' = <<>>
    /\ advanced' = advanced + 1
    /\ pc' = "end"
    /\ UNCHANGED results

MainColumnsMissing(f) ==
    /\ f.kind = "no_columns"
    /\ console' = Say("columns_not_found")
    /\ data' = <<>>
    \* progress.advance before `continue` (line 55), then `finally` (line 101)
    /\ advanced' = (advanced + 1) + 1
    /\ pc' = "end"
    /\ UNCHANGED results

MainDateNotFound(f) ==
    /\ f.kind = "table"
    /\ LET d == DropNa(ToDatetime(f.rows))
       IN  /\ PurchaseRow(d) = <<>>
           /\ data' = d
    /\ console' = Say("purchase_date_not_found")
    \* progress.advance before `continue` (line 68), then `finally` (line 101)
    /\ advanced' = (advanced + 1) + 1
    /\ pc' = "end"
    /\ UNCHANGED results

MainStore(f) ==
    /\ f.kind = "table"
    /\ LET d == DropNa(ToDatetime(f.rows))
       IN  /\ PurchaseRow(d) # <<>>
           /\ data' = d
           /\ results' = Append(results, LumpOutcome(target_files[idx + 1], d))
    /\ advanced' = advanced + 1
    /\ pc' = "end"
    /\ UNCHANGED console

\* one iteration of the loop of src/main.py, the file read being one of FS
MainIteration(FS) ==
    /\ script = "main"
    /\ pc = "loop"
    /\ idx < Len(target_files)
    /\ \E f \in FS :
          /\ file' = f
          /\ \/ MainFileMissing(f)
             \/ MainReadError(f)
             \/ MainColumnsMissing(f)
             \/ MainDateNotFound(f)
             \/ MainStore(f)
    /\ idx' = idx + 1
    /\ UNCHANGED <<script, investment_history, total_profit, total_investment,
                   total_profit_percent, sorted_results>>

MainBody == MainIteration(BasketFiles)

(***************************************************************************)
(* src/test.py: the body of the loop for one stock                         *)
(***************************************************************************)
IsSortedByDate(d) == \A k \in 1..(Len(d) - 1) : d[k].Date <= d[k + 1].Date

\* data.sort_values(by='Date'): the default sort is not stable, rows of one
\* date come in any order
SortValues(d) ==
    {s \in {[k \in 1..Len(d) |-> d[p[k]]] : p \in Permutations(1..Len(d))} :
        IsSortedByDate(s)}

\* data[data['Date'] >= start_investment_date]
FromStart(d) == LET Late(r) == r.Date >= start_investment_date IN SelectSeq(d, Late)

RECURSIVE Ascending(_)
Ascending(S) ==
    IF S = {} THEN <<>>
    ELSE LET m == CHOOSE x \in S : \A y \in S : x <= y
         IN  <<m>> \o Ascending(S \ {m})

\* pd.date_range(start=start_date, end=end_date, freq='MS')
DateRangeMS(start_date, end_date) ==
    Ascending({m \in MonthStarts : start_date <= m /\ m <= end_date})

\* AvailableRow taking the first row at or before the date, not the last
AvailableRowFirst(d, invest_date) ==
    LET Early(r) == r.Date <= invest_date
        upto == SelectSeq(d, Early)
    IN  IF upto = <<>> THEN <<>> ELSE <<upto[1]>>

\* AvailableRow taking only the rows strictly before the date
AvailableRowStrict(d, invest_date) ==
    LET Early(r) == r.Date < invest_date
        upto == SelectSeq(d, Early)
    IN  IF upto = <<>> THEN <<>> ELSE <<upto[Len(upto)]>>

\* data[data['Date'] <= invest_date].iloc[-1:]
AvailableRow(d, invest_date) ==
    LET Early(r) == r.Date <= invest_date
        upto == SelectSeq(d, Early)
    IN  IF upto = <<>> THEN <<>> ELSE <<upto[Len(upto)]>>

monthly_allocation == QMul(Float(monthly_budget), split_percentage)

\* lines 65-83: the purchases of one stock, one per investment date that
\* has a row at or before it
RECURSIVE Purchases(_, _)
Purchases(d, dates) ==
    IF dates = <<>> THEN <<>>
    ELSE LET available_row == AvailableRow(d, Head(dates))
         IN  IF available_row = <<>> THEN Purchases(d, Tail(dates))
             ELSE LET low_price == Float(available_row[1].Low)
                  IN  <<[Date |-> Head(dates),
                         SharesBought |-> QDiv(monthly_allocation, low_price),
                         Price |-> low_price]>> \o Purchases(d, Tail(dates))

\* RecurringOutcome dividing by the invested amount without testing it
RecurringOutcomeUnguarded(stock, d, bought) ==
    LET total_shares == QSum([k \in 1..Len(bought) |-> bought[k].SharesBought])
        invested == QSum([k \in 1..Len(bought) |-> monthly_allocation])
        final_close_price == Float(LastRow(d).Close)
        profit == QSub(QMul(total_shares, final_close_price), invested)
    IN  [Stock |-> stock,
         TotalShares |-> total_shares,
         TotalInvestment |-> invested,
         FinalPrice |-> final_close_price,
         Profit |-> profit,
         ProfitPercentage |-> QMul(QDiv(profit, invested), Float(100))]

\* lines 54-97: the outcome stored for a stock with the purchases `bought`
RecurringOutcome(stock, d, bought) ==
    LET total_shares == QSum([k \in 1..Len(bought) |-> bought[k].SharesBought])
        invested == QSum([k \in 1..Len(bought) |-> monthly_allocation])
        final_close_price == Float(LastRow(d).Close)
        profit == QSub(QMul(total_shares, final_close_price), invested)
        profit_percentage ==
            IF QGt(invested, Float(0))
            THEN QMul(QDiv(profit, invested), Float(100))
            ELSE Float(0)
    IN  [Stock |-> stock,
         TotalShares |-> total_shares,
         TotalInvestment |-> invested,
         FinalPrice |-> final_close_price,
         Profit |-> profit,
         ProfitPercentage |-> profit_percentage]

TestFileMissing(f) ==
    /\ f.kind = "missing"
    /\ console' = Say("file_not_found")
    /\ data' = <<>>
    /\ pc' = "end"
    /\ UNCHANGED <<results, investment_history>>

\* pd.read_csv raises: `except Exception` prints
TestReadError(f) ==
    /\ f.kind = "unreadable"
    /\ console' = Say("error")
    /\ data' = <<>>
    /\ pc' = "end"
    /\ UNCHANGED <<results, investment_history>>

TestColumnsMissing(f) ==
    /\ f.kind = "no_columns"
    /\ console' = Say("columns_not_found")
    /\ data' = <<>>
    /\ pc' = "end"
    /\ UNCHANGED <<results, investment_history>>

TestNoData(f) ==
    /\ f.kind = "table"
    /\ \E sorted \in SortValues(DropNa(ToDatetime(f.rows))) :
          /\ FromStart(sorted) = <<>>
          /\ data' = FromStart(sorted)
    /\ console' = Say("no_data_after_start")
    /\ pc' = "end"
    /\ UNCHANGED <<results, investment_history>>

TestStore(f) ==
    /\ f.kind = "table"
    /\ \E sorted \in SortValues(DropNa(ToDatetime(f.rows))) :
          LET d == FromStart(sorted)
          IN  /\ d # <<>>
              /\ data' = d
              /\ LET start_date == d[1].Date
                     end_date == LastRow(d).Date
                     monthly_dates == DateRangeMS(start_date, end_date)
                     bought == Purchases(d, monthly_dates)
                     stock == target_files[idx + 1]
                 IN  /\ investment_history' =
                            [investment_history EXCEPT ![stock] = bought]
                     /\ results' = Append(results, RecurringOutcome(stock, d, bought))
    /\ pc' = "end"
    /\ UNCHANGED console

\* one iteration of the loop of src/test.py, the file read being one of FS
TestIteration(FS) ==
    /\ script = "test"
    /\ pc = "loop"
    /\ idx < Len(target_files)
    /\ \E f \in FS :
          /\ file' = f
          /\ \/ TestFileMissing(f)
             \/ TestReadError(f)
             \/ TestColumnsMissing(f)
             \/ TestNoData(f)
             \/ TestStore(f)
    /\ idx' = idx + 1
    /\ UNCHANGED <<script, advanced, total_profit, total_investment,
                   total_profit_percent, sorted_results>>

TestBody == TestIteration(BasketFiles)

(***************************************************************************)
(* Both scripts: the loop header and what follows the loop                 *)
(***************************************************************************)
\* `for stock_name in target_files`: the next stock, or the end of the loop;
\* what the last iteration read is not used again
NextStock ==
    /\ pc = "end"
    /\ pc' = "loop"
    /\ file' = NotRead
    /\ data' = <<>>
    /\ UNCHANGED <<script, idx, console, results, investment_history, advanced,
                   total_profit, total_investment, total_profit_percent,
                   sorted_results>>

\* InsertByProfit moving an item before the items of equal Profit
RECURSIVE InsertByProfitUnstable(_, _)
InsertByProfitUnstable(s, r) ==
    IF s = <<>> THEN <<r>>
    ELSE IF ~QLt(r.Profit, s[Len(s)].Profit)
         THEN Append(InsertByProfitUnstable(SubSeq(s, 1, Len(s) - 1), r), s[Len(s)])
         ELSE Append(s, r)

\* sorted(results.items(), key=Profit, reverse=True): a stable sort, items
\* of equal Profit keep the order of results
RECURSIVE InsertByProfit(_, _)
InsertByProfit(s, r) ==
    IF s = <<>> THEN <<r>>
    ELSE IF QGt(r.Profit, s[Len(s)].Profit)
         THEN Append(InsertByProfit(SubSeq(s, 1, Len(s) - 1), r), s[Len(s)])
         ELSE Append(s, r)

RECURSIVE SortedByProfit(_)
SortedByProfit(s) ==
    IF s = <<>> THEN <<>>
    ELSE InsertByProfit(SortedByProfit(SubSeq(s, 1, Len(s) - 1)), s[Len(s)])

Profits(rs) == [k \in 1..Len(rs) |-> rs[k].Profit]
Investments(rs) == [k \in 1..Len(rs) |-> rs[k].TotalInvestment]

\* src/main.py lines 104-105
MainTotalProfitPercent(profit) ==
    QMul(QDiv(profit, Float(total_budget)), Float(100))

\* TestTotalProfitPercent dividing without testing the invested amount
TestTotalProfitPercentUnguarded(profit, invested) ==
    QMul(QDiv(profit, invested), Float(100))

\* src/test.py line 107
TestTotalProfitPercent(profit, invested) ==
    IF QGt(invested, Float(0))
    THEN QMul(QDiv(profit, invested), Float(100))
    ELSE Float(0)

MainAggregate ==
    /\ script = "main"
    /\ pc = "loop"
    /\ idx = Len(target_files)
    /\ total_profit' = QSum(Profits(results))
    /\ total_profit_percent' = MainTotalProfitPercent(QSum(Profits(results)))
    /\ sorted_results' = SortedByProfit(results)
    /\ pc' = "done"
    /\ UNCHANGED <<script, idx, file, data, console, results, investment_history,
                   advanced, total_investment>>

TestAggregate ==
    /\ script = "test"
    /\ pc = "loop"
    /\ idx = Len(target_files)
    /\ total_profit' = QSum(Profits(results))
    /\ total_investment' = QSum(Investments(results))
    /\ total_profit_percent' =
           TestTotalProfitPercent(QSum(Profits(results)), QSum(Investments(results)))
    /\ sorted_results' = SortedByProfit(results)
    /\ pc' = "done"
    /\ UNCHANGED <<script, idx, file, data, console, results, investment_history,
                   advanced>>

\* the data directory is missing or empty: the script prints and exits
ExitNoFiles ==
    /\ pc = "start"
    /\ pc' = "exited"
    /\ UNCHANGED <<script, idx, file, data, console, results, investment_history,
                   advanced, total_profit, total_investment,
                   total_profit_percent, sorted_results>>

\* the data directory has files: the loop is entered
EnterLoop ==
    /\ pc = "start"
    /\ pc' = "loop"
    /\ UNCHANGED <<script, idx, file, data, console, results, investment_history,
                   advanced, total_profit, total_investment,
                   total_profit_percent, sorted_results>>

Init ==
    /\ script \in {"main", "test"}
    /\ pc = "start"
    /\ idx = 0
    /\ file = NotRead
    /\ data = <<>>
    /\ console = <<>>
    /\ results = <<>>
    /\ investment_history = [s \in 1..NumStocks |-> <<>>]
    /\ advanced = 0
    /\ total_profit = Float(0)
    /\ total_investment = Float(0)
    /\ total_profit_percent = Float(0)
    /\ sorted_results = <<>>

Next ==
    \/ ExitNoFiles
    \/ EnterLoop
    \/ MainBody
    \/ TestBody
    \/ NextStock
    \/ MainAggregate
    \/ TestAggregate

Spec == Init /\ [][Next]_vars

(***************************************************************************)
(* One stock followed alone: the first iteration of either loop, over the  *)
(* larger files                                                            *)
(***************************************************************************)
MainFirstStock == idx = 0 /\ MainIteration(Files)
TestFirstStock == idx = 0 /\ TestIteration(Files)

NextFirst ==
    \/ ExitNoFiles
    \/ EnterLoop
    \/ MainFirstStock
    \/ TestFirstStock

SpecStock == Init /\ [][NextFirst]_vars

(***************************************************************************)
(* Properties                                                              *)
(***************************************************************************)
StocksOf(rs) == {rs[k].Stock : k \in 1..Len(rs)}
Printed(stock, text) == \E k \in 1..Len(console) : console[k] = <<stock, text>>
Visited(stock) ==
    \/ stock \in StocksOf(results)
    \/ \E k \in 1..Len(console) : console[k][1] = stock
BasketIndex(stock) == CHOOSE k \in 1..Len(target_files) : target_files[k] = stock
ParsedRows(f) == DropNa(ToDatetime(f.rows))
DatesOf(d) == {d[k].Date : k \in 1..Len(d)}
JustStored ==
    /\ pc = "end"
    /\ results # <<>>
    /\ results[Len(results)].Stock = target_files[idx]

\* C1: in the lump-sum script the selling price of a stored outcome is the
\* Close of a row of the greatest date of the file, whatever the row order.
C1_SellingPriceIsLatestClose ==
    (script = "main" /\ JustStored) =>
        LET d == ParsedRows(file)
        IN  \E k \in 1..Len(d) :
               /\ \A j \in 1..Len(d) : d[j].Date <= d[k].Date
               /\ results[Len(results)].SellingPrice = Float(d[k].Close)

\* C2: in the lump-sum script a stock whose file holds no row of the
\* purchase date is skipped with "purchase date not found": it is in neither
\* results nor the ranking, every item the aggregation reads has a Profit,
\* the aggregation sums and ranks the outcomes stored, and every other stock
\* visited has its outcome or its own message.
C2_AbsentPurchaseDateIsSkipped ==
    script = "main" =>
        /\ (pc = "end" /\ file.kind = "table"
                /\ purchase_date \notin DatesOf(ParsedRows(file)))
              => /\ Printed(target_files[idx], "purchase_date_not_found")
                 /\ target_files[idx] \notin StocksOf(results)
        /\ \A k \in 1..Len(target_files) :
              Printed(target_files[k], "purchase_date_not_found")
                 => /\ target_files[k] \notin StocksOf(results)
                    /\ target_files[k] \notin StocksOf(sorted_results)
        /\ \A k \in 1..idx : Visited(target_files[k])
        /\ \A k \in 1..Len(results) : "Profit" \in DOMAIN results[k]
        /\ pc = "done" =>
              /\ StocksOf(sorted_results) = StocksOf(results)
              /\ total_profit = QSum(Profits(results))

\* the first stock was skipped for its purchase date, the second is ranked
C2_Witness ==
    /\ script = "main"
    /\ pc = "done"
    /\ Printed(target_files[1], "purchase_date_not_found")
    /\ target_files[2] \in StocksOf(sorted_results)

\* C3: in both scripts the ranking holds the stored outcomes in
\* non-increasing order of Profit, outcomes of equal Profit in basket order.
C3_RankedByProfitStable ==
    pc = "done" =>
        /\ Len(sorted_results) = Len(results)
        /\ {sorted_results[k] : k \in 1..Len(sorted_results)}
              = {results[k] : k \in 1..Len(results)}
        /\ \A a, b \in 1..Len(sorted_results) :
              a < b =>
                 /\ ~QLt(sorted_results[a].Profit, sorted_results[b].Profit)
                 /\ sorted_results[a].Profit = sorted_results[b].Profit
                       => BasketIndex(sorted_results[a].Stock)
                             < BasketIndex(sorted_results[b].Stock)

\* two outcomes of equal Profit are ranked
C3_Witness ==
    /\ pc = "done"
    /\ \E a, b \in 1..Len(sorted_results) :
          /\ a < b
          /\ sorted_results[a].Profit = sorted_results[b].Profit

\* C4: in both scripts no outcome is stored for a stock bought at a price
\* <= 0.
C4_NonPositivePriceYieldsNoOutcome ==
    /\ script = "main" =>
          \A k \in 1..Len(results) : QGt(results[k].PurchasePrice, Float(0))
    /\ script = "test" =>
          \A k \in 1..Len(results) :
             LET h == investment_history[results[k].Stock]
             IN  \A j \in 1..Len(h) : QGt(h[j].Price, Float(0))

\* C5: total_profit_percent is total_profit / reference * 100, the reference
\* being total_budget (lump-sum) or the sum of the Total Investment of the
\* outcomes (recurring), and 0 when the reference is 0.
C5_TotalProfitPercent ==
    pc = "done" =>
        LET reference ==
                IF script = "main" THEN Float(total_budget)
                ELSE QSum(Investments(results))
        IN  /\ total_profit = QSum(Profits(results))
            /\ total_profit_percent =
                  IF reference = Float(0) THEN Float(0)
                  ELSE QMul(QDiv(total_profit, reference), Float(100))

\* the recurring script ended with outcomes and nothing invested
C5_Witness ==
    /\ script = "test"
    /\ pc = "done"
    /\ results # <<>>
    /\ QSum(Investments(results)) = Float(0)
    /\ total_profit_percent = Float(0)

\* C6: in the recurring script a stock whose rows from start_investment_date
\* on span no first-of-month day has an outcome with nothing bought, nothing
\* invested and a Profit Percentage of 0; so has every outcome with nothing
\* invested.
C6_ZeroInvestedZeroPercent ==
    (script = "test" /\ pc = "end") =>
        /\ (data # <<>> /\ ~\E m \in MonthStarts :
                                data[1].Date <= m /\ m <= data[Len(data)].Date)
              => /\ JustStored
                 /\ investment_history[target_files[idx]] = <<>>
                 /\ results[Len(results)].TotalInvestment = Float(0)
        /\ \A k \in 1..Len(results) :
              results[k].TotalInvestment = Float(0)
                 => /\ results[k].ProfitPercentage = Float(0)
                    /\ results[k].Profit = Float(0)

\* the file has rows from the start date on, none on a first-of-month day
C6_Witness ==
    /\ script = "test"
    /\ JustStored
    /\ data # <<>>
    /\ results[Len(results)].TotalInvestment = Float(0)
    /\ results[Len(results)].ProfitPercentage = Float(0)

\* C7: in both scripts a stock that fails (file missing, unreadable file,
\* columns missing, no usable row) does not end the loop: the script is
\* never anywhere but before the loop, in it, after the aggregation or out
\* at the empty data directory, each iteration is followed by the loop
\* header and each stock left by an iteration, the aggregation runs once,
\* when every stock of the basket has been visited, and ranks exactly the
\* outcomes stored.
C7_FailuresNeverAbortTheLoop ==
    /\ pc \in {"start", "loop", "end", "done", "exited"}
    /\ pc = "start" => ENABLED EnterLoop
    /\ pc = "end" => ENABLED NextStock
    /\ (pc = "loop" /\ idx < Len(target_files)) => ENABLED (MainBody \/ TestBody)
    /\ pc = "done" =>
          /\ ~ENABLED Next
          /\ idx = Len(target_files)
          /\ \A k \in 1..Len(target_files) : Visited(target_files[k])
          /\ Len(sorted_results) = Len(results)
          /\ StocksOf(sorted_results) = StocksOf(results)
    /\ pc # "done" =>
          /\ sorted_results = <<>>
          /\ total_profit = Float(0)
    /\ StocksOf(results) \cap {console[k][1] : k \in 1..Len(console)} = {}

\* the first stock failed with an exception, the second is ranked
C7_Witness ==
    /\ pc = "done"
    /\ Printed(target_files[1], "error")
    /\ target_files[2] \in StocksOf(sorted_results)

\* C8: in the recurring script every purchase is made at the Low of the last
\* row, of the whole sorted file, dated at or before the investment date, no
\* row of the file lies between that row and the investment date, and the
\* Final Price is the Close of the last row of the whole sorted file.
C8_ResolvedAgainstFullSeries ==
    (script = "test" /\ JustStored) =>
        \E full \in SortValues(ParsedRows(file)) :
           /\ data = FromStart(full)
           /\ results[Len(results)].FinalPrice = Float(full[Len(full)].Close)
           /\ LET h == investment_history[target_files[idx]]
              IN  \A j \in 1..Len(h) :
                     \E k \in 1..Len(full) :
                        /\ full[k].Date <= h[j].Date
                        /\ \A i \in 1..Len(full) :
                              full[i].Date <= h[j].Date => i <= k
                        /\ \A i \in 1..Len(full) :
                              ~(full[k].Date < full[i].Date
                                  /\ full[i].Date <= h[j].Date)
                        /\ h[j].Price = Float(full[k].Low)

\* the file has a row before start_investment_date and a purchase was made
C8_Witness ==
    /\ script = "test"
    /\ JustStored
    /\ investment_history[target_files[idx]] # <<>>
    /\ \E d \in DatesOf(ParsedRows(file)) : d < start_investment_date

\* C9: in the recurring script the purchases of a stock are made on exactly
\* the first-of-month days between the first and the last row kept, in
\* ascending order, one per day (no period is skipped), and Total Investment
\* is their number times the monthly allocation.
C9_OnePurchasePerMonthStart ==
    (script = "test" /\ JustStored) =>
        LET h == investment_history[target_files[idx]]
            firsts == {m \in MonthStarts :
                          data[1].Date <= m /\ m <= data[Len(data)].Date}
        IN  /\ Len(h) = Cardinality(firsts)
            /\ {h[j].Date : j \in 1..Len(h)} = firsts
            /\ \A j \in 1..(Len(h) - 1) : h[j].Date < h[j + 1].Date
            /\ results[Len(results)].TotalInvestment
                  = QMul(Float(Cardinality(firsts)), monthly_allocation)

\* purchases were made on two first-of-month days
C9_Witness ==
    /\ script = "test"
    /\ JustStored
    /\ Len(investment_history[target_files[idx]]) = Cardinality(MonthStarts)

\* C10: in the lump-sum script the progress task is advanced once per stock
\* visited, so never beyond its total, len(target_files).
C10_AdvancedOncePerStock ==
    script = "main" =>
        /\ advanced = idx
        /\ advanced <= Len(target_files)

====
